---- MODULE Spec2Model ----
(***************************************************************************)
(* Verification model of the Sanad legal-assistant front end and schema:   *)
(*   - ChatInterface (components/ChatInterface.tsx): the chat session      *)
(*     state machine, its handlers and stream callbacks;                   *)
(*   - askQuestionStreaming (lib/api.ts): request life cycle, SSE parser   *)
(*     and error translation;                                              *)
(*   - canPerformAction (lib/supabase/subscription-context);               *)
(*   - row-level security policies of conversations / messages;           *)
(*   - the authentication middleware.                                      *)
(* Strings that the code concatenates are sequences of pieces; '' is <<>>. *)
(***************************************************************************)
EXTENDS Integers, Sequences, FiniteSets, TLC

VARIABLES
  \* ---- ChatInterface state (useState / useRef) ----
  messages, input, loading, isThinking, currentConvId,
  streamingContentRef, streamingMetaRef, abortRef, pendingRetryRef,
  \* ---- SubscriptionProvider state and browser environment ----
  usage, online,
  \* ---- asynchronous activities started by sendMessage ----
  req, nreq, saving,
  \* ---- SSE parser run (askQuestionStreaming's read loop on one response) ----
  sseText, ssePos, sseBuffer, sseCalls,
  \* ---- one canPerformAction evaluation ----
  ucAction, ucResult,
  \* ---- database: conversations and messages under row-level security ----
  conversations, dbMessages, dbLog,
  \* ---- one middleware invocation ----
  mwRequest, mwResponse,
  \* ---- subscription schema: tables, and the increment_usage calls ----
  user_subscriptions, usage_tracking, incCalls, message_feedback,
  \* ---- model mode of ChatInterface and the subscription of the provider ----
  modelMode, subscription

chatVars == <<messages, input, loading, isThinking, currentConvId,
              streamingContentRef, streamingMetaRef, abortRef, pendingRetryRef,
              usage, online, req, nreq, saving>>

parseVars == <<sseText, ssePos, sseBuffer, sseCalls>>
ucVars == <<ucAction, ucResult>>
dbVars == <<conversations, dbMessages, dbLog>>
mwVars == <<mwRequest, mwResponse>>
planVars == <<user_subscriptions, usage_tracking, incCalls, message_feedback,
              modelMode, subscription>>

vars == <<chatVars, parseVars, ucVars, dbVars, mwVars, planVars>>

(***************************************************************************)
(* Bounds                                                                  *)
(***************************************************************************)
MaxReq == 2
MaxEvents == 2

Requests == 1..MaxReq

(***************************************************************************)
(* Values                                                                  *)
(***************************************************************************)
Inputs == {<<>>, <<"q1", " ">>}
QUICK_QUESTIONS == {<<"q1">>}
TokenTexts == {"a", "b"}
MetaValues == {"m1"}
NoMeta == "undefined"

\* String.prototype.trim: the white space at both ends is removed.
Whitespace == {" ", "\t", "\n", "\r"}
RECURSIVE TrimLeft(_)
TrimLeft(s) == IF s # <<>> /\ Head(s) \in Whitespace THEN TrimLeft(Tail(s)) ELSE s
RECURSIVE TrimRight(_)
TrimRight(s) ==
  IF s # <<>> /\ s[Len(s)] \in Whitespace
    THEN TrimRight(SubSeq(s, 1, Len(s) - 1)) ELSE s
Trim(s) == TrimRight(TrimLeft(s))

(***************************************************************************)
(* ChatInterface: messages                                                 *)
(***************************************************************************)
\* interface Message; an absent optional field is FALSE / NoMeta / 0.
Message(role, content, isStreaming, isError, sources, id) ==
  [role |-> role, content |-> content, isStreaming |-> isStreaming,
   isError |-> isError, sources |-> sources, id |-> id]

\* const userMsg: Message = { role: 'user', content: q }
UserMsg(q) == Message("user", q, FALSE, FALSE, NoMeta, 0)

\* { role: 'assistant', content: '', isStreaming: true }
Placeholder == Message("assistant", <<>>, TRUE, FALSE, NoMeta, 0)

\* const updated = [...prev]; updated[updated.length - 1] = m; return updated
\* (on an empty array the write to index -1 adds no element).
SetLast(prev, m) == IF Len(prev) = 0 THEN prev ELSE [prev EXCEPT ![Len(prev)] = m]

\* pendingRetryRef.current: null, or { question, skipUserMessage }
NoRetry == [set |-> FALSE, question |-> <<>>, skipUserMessage |-> FALSE]

(***************************************************************************)
(* One record per sendMessage call.  pc is the await the call is at:       *)
(*   "unused"   not called yet                                             *)
(*   "creating" await createConversation          (ChatInterface 163)      *)
(*   "headers"  await getHeaders                  (api 47)                 *)
(*   "fetching" await fetch                       (api 48)                 *)
(*   "reading"  await reader.read                 (api 70)                 *)
(*   "returned" askQuestionStreaming has returned (api 122)                *)
(* aborted is controller.signal.aborted, timer the 120 s timeout being     *)
(* armed.  calls, stopAt, upos, gate and cause are history: the callbacks  *)
(* invoked so far, Len(calls) when stopGenerating was invoked for the call,*)
(* the index at which its user message was appended, canPerformAction at   *)
(* the time of the call, what made the request fail, the message of the    *)
(* exception thrown, whether navigator.onLine was false when the failure   *)
(* was caught, the modelMode of the render that called sendMessage, and    *)
(* the content onDone passed to addMessage; retry tells that the call was  *)
(* made by the pending-retry effect.                                       *)
(***************************************************************************)
NoReq == [pc |-> "unused", q |-> <<>>, skip |-> FALSE, convId |-> 0,
          aborted |-> FALSE, timer |-> FALSE, nev |-> 0,
          calls |-> <<>>, stopAt |-> -1, upos |-> 0, gate |-> TRUE,
          cause |-> "none", thrown |-> "", offline |-> FALSE,
          modelMode |-> "2.1", answer |-> <<>>, retry |-> FALSE]

Call(kind, val) == [kind |-> kind, val |-> val]

\* The request's promise reactions are queued: the pending fetch or read of an
\* aborted controller rejects before any other task runs, and the pending-retry
\* effect runs before the browser handles another event.
AbortPending(r) == req[r].pc \in {"fetching", "reading"} /\ req[r].aborted
EffectPending == pendingRetryRef.set /\ ~loading
Urgent == EffectPending \/ \E r \in Requests : AbortPending(r)

(***************************************************************************)
(* SubscriptionProvider: usage limits                                      *)
(***************************************************************************)
\* A limit of -1 is no limit.
Unlimited == -1

DEFAULT_LIMITS ==
  [questions_per_day |-> 3, questions_per_month |-> 30,
   drafts_per_month |-> 1, deadlines_per_month |-> 3]

ActionKinds == {"questions", "drafts", "deadlines"}

\* UsageData | null: loaded = FALSE is null; hasLimits = FALSE is a response
\* without the limits field.
Usage(loaded, hasLimits, limits, today, monthly) ==
  [loaded |-> loaded, hasLimits |-> hasLimits, limits |-> limits,
   today |-> today, monthly |-> monthly]

NoUsage ==
  Usage(FALSE, FALSE, DEFAULT_LIMITS, [questions_count |-> 0],
        [questions |-> 0, drafts |-> 0, deadlines |-> 0])

\* const limits = usage.limits || DEFAULT_LIMITS
EffectiveLimits(u) == IF u.hasLimits THEN u.limits ELSE DEFAULT_LIMITS

\* canPerformAction that ignores the monthly limit of questions.
CanPerformActionDailyOnly(u, action) ==
  IF ~u.loaded THEN TRUE
  ELSE LET limits == EffectiveLimits(u) IN
    CASE action = "questions" ->
           ~(limits.questions_per_day # Unlimited
               /\ u.today.questions_count >= limits.questions_per_day)
      [] action = "drafts" ->
           ~(limits.drafts_per_month # Unlimited
               /\ u.monthly.drafts >= limits.drafts_per_month)
      [] action = "deadlines" ->
           ~(limits.deadlines_per_month # Unlimited
               /\ u.monthly.deadlines >= limits.deadlines_per_month)
      [] OTHER -> TRUE

\* canPerformAction (subscription-context 163-182).
CanPerformAction(u, action) ==
  IF ~u.loaded THEN TRUE
  ELSE LET limits == EffectiveLimits(u) IN
    IF action = "questions" THEN
      LET dailyLimit == limits.questions_per_day
          monthlyLimit == limits.questions_per_month
      IN IF dailyLimit # Unlimited /\ u.today.questions_count >= dailyLimit THEN FALSE
         ELSE IF monthlyLimit # Unlimited /\ u.monthly.questions >= monthlyLimit THEN FALSE
         ELSE TRUE
    ELSE IF action = "drafts" THEN
      LET monthlyLimit == limits.drafts_per_month
      IN IF monthlyLimit # Unlimited /\ u.monthly.drafts >= monthlyLimit THEN FALSE ELSE TRUE
    ELSE IF action = "deadlines" THEN
      LET monthlyLimit == limits.deadlines_per_month
      IN IF monthlyLimit # Unlimited /\ u.monthly.deadlines >= monthlyLimit THEN FALSE ELSE TRUE
    ELSE TRUE

\* Usage data the chat session is run with: not loaded, and at the daily
\* limit of the free plan.
ChatUsages ==
  {NoUsage,
   Usage(TRUE, TRUE, DEFAULT_LIMITS, [questions_count |-> 3],
         [questions |-> 3, drafts |-> 0, deadlines |-> 0])}

(***************************************************************************)
(* askQuestionStreaming: error translation                                 *)
(***************************************************************************)
\* The localized messages of askQuestionStreaming (api 56-64, 112-116).
ErrorMessages ==
  [sessionExpired |-> "session expired - sign in again",
   limitExceeded |-> "limit exceeded - upgrade or wait",
   maintenance |-> "server in maintenance - try again shortly",
   connection |-> "connection error",
   generic |-> "an error occurred",
   noStreaming |-> "streaming not supported",
   timeout |-> "timed out - try again",
   offline |-> "no internet connection - check your network",
   catchDefault |-> "an error occurred while connecting"]
ServerDetail == "server detail"
MsgFailedToFetch == "Failed to fetch"

Exception(name, message) == [name |-> name, message |-> message]

\* What fetch resolves with: the status, and the body as the code uses it
\* ("stream": a readable body; "null": no body; for a non-OK status the JSON
\* it carries: with a detail, without one, or not JSON at all).
Responses ==
  {[status |-> 200, body |-> "stream"], [status |-> 200, body |-> "null"],
   [status |-> 401, body |-> "detail"], [status |-> 429, body |-> "detail"],
   [status |-> 503, body |-> "detail"], [status |-> 500, body |-> "detail"],
   [status |-> 500, body |-> "nodetail"], [status |-> 500, body |-> "badjson"]}

StreamResponse == [status |-> 200, body |-> "stream"]

ResOk(res) == res.status >= 200 /\ res.status <= 299

\* api 55-64: the Error thrown for a response that cannot be streamed.
ResponseError(res) ==
  IF ~ResOk(res) THEN
    IF res.status = 401 THEN Exception("Error", ErrorMessages.sessionExpired)
    ELSE IF res.status = 429 THEN Exception("Error", ErrorMessages.limitExceeded)
    ELSE IF res.status = 503 THEN Exception("Error", ErrorMessages.maintenance)
    ELSE LET detail == CASE res.body = "badjson" -> ErrorMessages.connection
                         [] res.body = "nodetail" -> ""
                         [] OTHER -> ServerDetail
         IN Exception("Error", IF detail # "" THEN detail ELSE ErrorMessages.generic)
  ELSE Exception("Error", ErrorMessages.noStreaming)

\* The catch block without its navigator.onLine branch.
CatchMessageNoOffline(e, onLine) ==
  IF e.name = "AbortError" THEN ErrorMessages.timeout
  ELSE IF e.message # "" THEN e.message ELSE ErrorMessages.catchDefault

\* api 110-117: the message the catch block passes to onError.
CatchMessage(e, onLine) ==
  IF e.name = "AbortError" THEN ErrorMessages.timeout
  ELSE IF ~onLine THEN ErrorMessages.offline
  ELSE IF e.message # "" THEN e.message ELSE ErrorMessages.catchDefault

(***************************************************************************)
(* ChatInterface: the stream callbacks passed to askQuestionStreaming      *)
(***************************************************************************)
\* JavaScript += on strings.
Concat(s, text) == IF text = "" THEN s ELSE Append(s, text)

Last(seq) == seq[Len(seq)]

OnMeta(data) ==
  /\ streamingMetaRef' = data
  /\ UNCHANGED <<messages, loading, isThinking, abortRef, streamingContentRef, saving>>

OnToken(text) ==
  /\ isThinking' = FALSE
  /\ streamingContentRef' = Concat(streamingContentRef, text)
  /\ messages' =
       IF Len(messages) = 0 THEN messages
       ELSE SetLast(messages, [Last(messages) EXCEPT
                      !.content = streamingContentRef', !.isStreaming = TRUE])
  /\ UNCHANGED <<loading, abortRef, streamingMetaRef, saving>>

\* The addMessage of the assistant answer is issued when savedConvId is set;
\* its completion is SaveResolved / SaveFailed.
OnDone(r, savedConvId) ==
  /\ messages' =
       IF Len(messages) = 0 THEN messages
       ELSE SetLast(messages, [Last(messages) EXCEPT
                      !.content = streamingContentRef,
                      !.sources = streamingMetaRef,
                      !.isStreaming = FALSE])
  /\ loading' = FALSE
  /\ isThinking' = FALSE
  /\ abortRef' = 0
  /\ saving' = IF savedConvId # 0 THEN saving \cup {r} ELSE saving
  /\ UNCHANGED <<streamingContentRef, streamingMetaRef>>

OnError(error) ==
  /\ LET hasPartialContent == streamingContentRef # <<>> IN
       messages' =
         SetLast(messages,
           Message("assistant",
                   IF hasPartialContent
                     THEN streamingContentRef \o <<"\n\n", error>>
                     ELSE <<error>>,
                   FALSE, ~hasPartialContent, NoMeta, 0))
  /\ loading' = FALSE
  /\ isThinking' = FALSE
  /\ abortRef' = 0
  /\ UNCHANGED <<streamingContentRef, streamingMetaRef, saving>>

(***************************************************************************)
(* ChatInterface: handlers                                                 *)
(***************************************************************************)
nonChatVars == <<parseVars, ucVars, dbVars, mwVars, planVars>>

\* askQuestionStreaming is entered (api 43-47): the controller is the one
\* sendMessage made, the 120 s timer is armed, getHeaders is awaited.
StartAsk(rec, convId) ==
  [rec EXCEPT !.pc = "headers", !.convId = convId, !.timer = TRUE]

\* sendMessage(question, { skipUserMessage }).  With a conversation id the
\* call runs to the await in askQuestionStreaming; without one it stops at
\* await createConversation and CreateConversationSettled continues it.
SendMessage(question, skipUserMessage) ==
  LET q == IF question # <<>> THEN question ELSE Trim(input)
      r == nreq + 1
      withUser == IF skipUserMessage THEN messages ELSE Append(messages, UserMsg(q))
      rec == [NoReq EXCEPT !.q = q, !.skip = skipUserMessage,
                           !.upos = IF skipUserMessage THEN 0 ELSE Len(withUser),
                           !.gate = CanPerformAction(usage, "questions"),
                           !.modelMode = modelMode,
                           !.retry = pendingRetryRef.set]
  IN /\ q # <<>>
     /\ ~loading
     /\ nreq < MaxReq
     /\ nreq' = r
     /\ input' = IF skipUserMessage THEN input ELSE <<>>
     /\ loading' = TRUE
     /\ isThinking' = TRUE
     /\ streamingContentRef' = <<>>
     /\ streamingMetaRef' = NoMeta
     /\ IF currentConvId = 0
          THEN /\ messages' = withUser
               /\ req' = [req EXCEPT ![r] = [rec EXCEPT !.pc = "creating"]]
               /\ UNCHANGED abortRef
          ELSE /\ messages' = Append(withUser, Placeholder)
               /\ abortRef' = r
               /\ req' = [req EXCEPT ![r] = StartAsk(rec, currentConvId)]
     /\ UNCHANGED <<currentConvId, usage, online, saving>>

\* The id createConversation returns for the call r.
NewConvId(r) == 10 + r

\* sendMessage after await createConversation (ChatInterface 163-207): the
\* conversation was created (ok) or the call threw and convId stays null.
\* After router.replace the component is taken to stay mounted with its
\* state, as the code that follows it in sendMessage assumes.
CreateConversationSettled(r, ok) ==
  LET convId == IF ok THEN NewConvId(r) ELSE 0 IN
  /\ ~Urgent
  /\ req[r].pc = "creating"
  /\ currentConvId' = IF ok THEN convId ELSE currentConvId
  /\ messages' = Append(messages, Placeholder)
  /\ abortRef' = r
  /\ req' = [req EXCEPT ![r] = StartAsk(@, convId)]
  /\ UNCHANGED <<input, loading, isThinking, streamingContentRef, streamingMetaRef,
                 pendingRetryRef, usage, online, nreq, saving>>
  /\ UNCHANGED nonChatVars

\* The textarea (disabled while loading).
SetInput(text) ==
  /\ ~Urgent
  /\ ~loading
  /\ input # text
  /\ input' = text
  /\ UNCHANGED <<messages, loading, isThinking, currentConvId, streamingContentRef,
                 streamingMetaRef, abortRef, pendingRetryRef, usage, online, req,
                 nreq, saving>>
  /\ UNCHANGED nonChatVars

\* Form submit and Enter: sendMessage().
Submit ==
  /\ ~Urgent
  /\ SendMessage(<<>>, FALSE)
  /\ UNCHANGED pendingRetryRef
  /\ UNCHANGED nonChatVars

\* A quick-question button (rendered while messages is empty).
QuickQuestion(q) ==
  /\ ~Urgent
  /\ Len(messages) = 0
  /\ SendMessage(q, FALSE)
  /\ UNCHANGED pendingRetryRef
  /\ UNCHANGED nonChatVars

\* A request of which neither onDone nor onError has been called and which
\* has not returned.
Terminal(c) == c.kind \in {"done", "error"}
Terminated(r) == \E i \in 1..Len(req[r].calls) : Terminal(req[r].calls[i])
Outstanding(r) ==
  /\ req[r].pc \in {"creating", "headers", "fetching", "reading"}
  /\ ~Terminated(r)

\* The stop button and Escape (both offered while loading).
StopGenerating ==
  /\ ~Urgent
  /\ loading
  /\ req' = [r \in Requests |->
               LET a == IF abortRef = r THEN [req[r] EXCEPT !.aborted = TRUE]
                        ELSE req[r]
               IN IF Outstanding(r) /\ a.stopAt = -1
                    THEN [a EXCEPT !.stopAt = Len(a.calls)] ELSE a]
  /\ abortRef' = 0
  /\ loading' = FALSE
  /\ isThinking' = FALSE
  /\ messages' =
       IF Len(messages) > 0 /\ Last(messages).isStreaming
         THEN SetLast(messages, [Last(messages) EXCEPT
                !.content = IF streamingContentRef # <<>> THEN streamingContentRef
                            ELSE @,
                !.isStreaming = FALSE])
         ELSE messages
  /\ UNCHANGED <<input, currentConvId, streamingContentRef, streamingMetaRef,
                 pendingRetryRef, usage, online, nreq, saving>>
  /\ UNCHANGED nonChatVars

\* The content of the last user message, '' when there is none.
RECURSIVE LastUserQ(_)
LastUserQ(msgs) ==
  IF Len(msgs) = 0 THEN <<>>
  ELSE IF Last(msgs).role = "user" THEN Last(msgs).content
  ELSE LastUserQ(SubSeq(msgs, 1, Len(msgs) - 1))

PopIf(msgs, role) ==
  IF Len(msgs) > 0 /\ Last(msgs).role = role THEN SubSeq(msgs, 1, Len(msgs) - 1)
  ELSE msgs

\* A user message that a retry removes is no longer tracked.
Untrack(msgs) ==
  [r \in Requests |-> IF req[r].upos > Len(msgs) THEN [req[r] EXCEPT !.upos = 0]
                      ELSE req[r]]

\* The retry button of a message with isError.
RetryLastMessage ==
  /\ ~Urgent
  /\ \E i \in 1..Len(messages) : messages[i].isError
  /\ ~loading
  /\ LastUserQ(messages) # <<>>
  /\ nreq < MaxReq
  /\ messages' = PopIf(PopIf(messages, "assistant"), "user")
  /\ pendingRetryRef' = [set |-> TRUE, question |-> LastUserQ(messages),
                         skipUserMessage |-> FALSE]
  /\ req' = Untrack(messages')
  /\ UNCHANGED <<input, loading, isThinking, currentConvId, streamingContentRef,
                 streamingMetaRef, abortRef, usage, online, nreq, saving>>
  /\ UNCHANGED nonChatVars

\* The regenerate button of the last message (assistant, not streaming, not
\* an error, not loading).
RegenerateResponse ==
  /\ ~Urgent
  /\ Len(messages) > 0
  /\ Last(messages).role = "assistant"
  /\ ~Last(messages).isStreaming
  /\ ~Last(messages).isError
  /\ ~loading
  /\ LastUserQ(messages) # <<>>
  /\ nreq < MaxReq
  /\ messages' = PopIf(messages, "assistant")
  /\ pendingRetryRef' = [set |-> TRUE, question |-> LastUserQ(messages),
                         skipUserMessage |-> TRUE]
  /\ UNCHANGED <<input, loading, isThinking, currentConvId, streamingContentRef,
                 streamingMetaRef, abortRef, usage, online, req, nreq, saving>>
  /\ UNCHANGED nonChatVars

\* useEffect on [messages, loading, sendMessage]: the pending retry is sent.
PendingRetryEffect ==
  /\ EffectPending
  /\ pendingRetryRef' = NoRetry
  /\ SendMessage(pendingRetryRef.question, pendingRetryRef.skipUserMessage)
  /\ UNCHANGED nonChatVars

(***************************************************************************)
(* askQuestionStreaming: the steps of one call                             *)
(***************************************************************************)
idleChat == <<input, currentConvId, pendingRetryRef, usage, online, nreq>>

\* api 110-120: catch, then finally clears the timer, then the call returns.
Catch(r, e, cause) ==
  LET msg == CatchMessage(e, online) IN
  /\ OnError(msg)
  /\ req' = [req EXCEPT ![r] = [@ EXCEPT !.pc = "returned", !.timer = FALSE,
                                         !.calls = Append(@, Call("error", msg)),
                                         !.cause = cause, !.thrown = e.message,
                                         !.offline = ~online]]

\* getHeaders resolves (it catches its own failures); fetch is called.
HeadersResolve(r) ==
  /\ ~Urgent
  /\ req[r].pc = "headers"
  /\ req' = [req EXCEPT ![r].pc = "fetching"]
  /\ UNCHANGED <<messages, loading, isThinking, abortRef, streamingContentRef,
                 streamingMetaRef, saving>>
  /\ UNCHANGED idleChat
  /\ UNCHANGED nonChatVars

\* fetch resolves with a response.
FetchResponse(r, res) ==
  /\ ~Urgent
  /\ req[r].pc = "fetching"
  /\ IF ResOk(res) /\ res.body = "stream"
       THEN /\ req' = [req EXCEPT ![r].pc = "reading"]
            /\ UNCHANGED <<messages, loading, isThinking, abortRef,
                           streamingContentRef, streamingMetaRef, saving>>
       ELSE Catch(r, ResponseError(res),
                  IF ResOk(res) THEN "nobody"
                  ELSE IF res.status = 500 THEN res.body
                  ELSE IF res.status = 401 THEN "401"
                  ELSE IF res.status = 429 THEN "429" ELSE "503")
  /\ UNCHANGED idleChat
  /\ UNCHANGED nonChatVars

\* fetch rejects: the network failed.
FetchReject(r) ==
  /\ ~Urgent
  /\ req[r].pc = "fetching"
  /\ Catch(r, Exception("TypeError", MsgFailedToFetch), "network")
  /\ UNCHANGED idleChat
  /\ UNCHANGED nonChatVars

\* The pending fetch or read of an aborted controller rejects.
AbortReject(r) ==
  /\ AbortPending(r)
  /\ Catch(r, Exception("AbortError", "The operation was aborted."), "abort")
  /\ UNCHANGED idleChat
  /\ UNCHANGED nonChatVars

\* The events a data line of the stream can carry.
Events ==
  {Call("meta", m) : m \in MetaValues} \cup {Call("token", t) : t \in TokenTexts}
    \cup {Call("done", ""), Call("error", "server error")}

\* reader.read resolves with a chunk whose line carries the event ev; the
\* switch (api 87-104) calls the matching callback.  The server ends a
\* stream's events with done or error: none follows them.
ReadChunk(r, ev) ==
  /\ ~Urgent
  /\ req[r].pc = "reading"
  /\ req[r].nev < MaxEvents
  /\ ~Terminated(r)
  /\ req' = [req EXCEPT ![r] =
                [@ EXCEPT !.nev = @ + 1, !.calls = Append(@, ev),
                          !.answer = IF ev.kind = "done" THEN streamingContentRef
                                     ELSE @]]
  /\ CASE ev.kind = "meta" -> OnMeta(ev.val)
       [] ev.kind = "token" -> OnToken(ev.val)
       [] ev.kind = "done" -> OnDone(r, req[r].convId)
       [] ev.kind = "error" -> OnError(ev.val)
  /\ UNCHANGED idleChat
  /\ UNCHANGED nonChatVars

\* reader.read resolves with done: the loop breaks, finally clears the timer.
ReadDone(r) ==
  /\ ~Urgent
  /\ req[r].pc = "reading"
  /\ req' = [req EXCEPT ![r] = [@ EXCEPT !.pc = "returned", !.timer = FALSE]]
  /\ UNCHANGED <<messages, loading, isThinking, abortRef, streamingContentRef,
                 streamingMetaRef, saving>>
  /\ UNCHANGED idleChat
  /\ UNCHANGED nonChatVars

\* reader.read rejects: the connection broke.
ReadReject(r) ==
  /\ ~Urgent
  /\ req[r].pc = "reading"
  /\ Catch(r, Exception("TypeError", "network error"), "network")
  /\ UNCHANGED idleChat
  /\ UNCHANGED nonChatVars

\* The 120 s timer fires: controller.abort().
Timeout(r) ==
  /\ ~Urgent
  /\ req[r].timer
  /\ ~req[r].aborted
  /\ req' = [req EXCEPT ![r].aborted = TRUE]
  /\ UNCHANGED <<messages, loading, isThinking, abortRef, streamingContentRef,
                 streamingMetaRef, saving>>
  /\ UNCHANGED idleChat
  /\ UNCHANGED nonChatVars

\* The id addMessage returns for the answer of the call r.
SavedMsgId(r) == 100 + r

\* addMessage(..., 'assistant', ...) of onDone resolves: the last message
\* gets the id of the saved row.
SaveResolved(r) ==
  /\ ~Urgent
  /\ r \in saving
  /\ saving' = saving \ {r}
  /\ messages' = IF Len(messages) = 0 THEN messages
                 ELSE SetLast(messages, [Last(messages) EXCEPT !.id = SavedMsgId(r)])
  /\ UNCHANGED <<loading, isThinking, abortRef, streamingContentRef,
                 streamingMetaRef, req>>
  /\ UNCHANGED idleChat
  /\ UNCHANGED nonChatVars

\* The same addMessage rejects: .catch(() => {}).
SaveFailed(r) ==
  /\ ~Urgent
  /\ r \in saving
  /\ saving' = saving \ {r}
  /\ UNCHANGED <<messages, loading, isThinking, abortRef, streamingContentRef,
                 streamingMetaRef, req>>
  /\ UNCHANGED idleChat
  /\ UNCHANGED nonChatVars

\* navigator.onLine changes.
ToggleOnline ==
  /\ ~Urgent
  /\ online' = ~online
  /\ UNCHANGED <<messages, input, loading, isThinking, currentConvId,
                 streamingContentRef, streamingMetaRef, abortRef, pendingRetryRef,
                 usage, req, nreq, saving>>
  /\ UNCHANGED nonChatVars

\* refreshUsage (on mount and every 5 minutes): usage data arrive.
RefreshUsage(u) ==
  /\ ~Urgent
  /\ u.loaded
  /\ usage # u
  /\ usage' = u
  /\ UNCHANGED <<messages, input, loading, isThinking, currentConvId,
                 streamingContentRef, streamingMetaRef, abortRef, pendingRetryRef,
                 online, req, nreq, saving>>
  /\ UNCHANGED nonChatVars

(***************************************************************************)
(* Specification of a chat session                                         *)
(***************************************************************************)
\* Values of the variables that belong to the other specifications.
ParseIdle ==
  /\ sseText = <<>> /\ ssePos = 0 /\ sseBuffer = <<>> /\ sseCalls = <<>>
UcIdle == ucAction = "questions" /\ ucResult = "none"
DbIdle == conversations = {} /\ dbMessages = {} /\ dbLog = <<>>
\* No request handled yet.
NoRequest == [pathname |-> <<>>, user |-> "null", configured |-> FALSE]
MwIdle == mwRequest = NoRequest /\ mwResponse = "none"
\* Empty tables, no increment_usage call; useState('2.1') and useState(null).
PlanIdle ==
  /\ user_subscriptions = {} /\ usage_tracking = {} /\ incCalls = <<>>
  /\ message_feedback = {} /\ modelMode = "2.1" /\ subscription = "null"

SessionIdle ==
  /\ messages = <<>> /\ input = <<>> /\ loading = FALSE /\ isThinking = FALSE
  /\ currentConvId = 0 /\ streamingContentRef = <<>> /\ streamingMetaRef = NoMeta
  /\ abortRef = 0 /\ pendingRetryRef = NoRetry
  /\ online = TRUE /\ req = [r \in Requests |-> NoReq] /\ nreq = 0 /\ saving = {}
ChatIdle == SessionIdle /\ usage = NoUsage

\* The state after the first render: /chat (no conversation) or /chat/[id] of
\* a conversation without messages.
Init ==
  /\ messages = <<>>
  /\ input = <<>>
  /\ loading = FALSE
  /\ isThinking = FALSE
  /\ currentConvId \in {0, 1}
  /\ streamingContentRef = <<>>
  /\ streamingMetaRef = NoMeta
  /\ abortRef = 0
  /\ pendingRetryRef = NoRetry
  /\ usage = NoUsage
  /\ online = TRUE
  /\ req = [r \in Requests |-> NoReq]
  /\ nreq = 0
  /\ saving = {}
  /\ ParseIdle /\ UcIdle /\ DbIdle /\ MwIdle /\ PlanIdle

\* A chat session of up to MaxReq requests over a network that does not fail:
\* fetch resolves with a streamable response and the connection stays up until
\* the server closes it.
Next ==
  \/ \E text \in Inputs : SetInput(text)
  \/ Submit
  \/ \E q \in QUICK_QUESTIONS : QuickQuestion(q)
  \/ \E r \in Requests, ok \in BOOLEAN : CreateConversationSettled(r, ok)
  \/ StopGenerating
  \/ RetryLastMessage
  \/ RegenerateResponse
  \/ PendingRetryEffect
  \/ \E r \in Requests : HeadersResolve(r)
  \/ \E r \in Requests : FetchResponse(r, StreamResponse)
  \/ \E r \in Requests : AbortReject(r)
  \/ \E r \in Requests, ev \in Events : ReadChunk(r, ev)
  \/ \E r \in Requests : ReadDone(r)
  \/ \E r \in Requests : SaveResolved(r)
  \/ \E r \in Requests : SaveFailed(r)

Spec == Init /\ [][Next]_vars

(***************************************************************************)
(* Properties of a chat session                                            *)
(***************************************************************************)
\* A request is in flight from the call of askQuestionStreaming until it has
\* been aborted, has delivered done or error, or has returned.
InFlight(r) ==
  /\ req[r].pc \in {"headers", "fetching", "reading"}
  /\ ~req[r].aborted
  /\ ~Terminated(r)

\* C1: at most one /ask-stream request is in flight at any time.
C1_SingleInFlight == Cardinality({r \in Requests : InFlight(r)}) <= 1

\* The call r gets a callback in this step; Delivered is that callback.
Gets(r) == Len(req'[r].calls) = Len(req[r].calls) + 1
Delivered(r) == req'[r].calls[Len(req'[r].calls)]

\* stopGenerating is invoked in this step for the outstanding call r.
StopsNow(r) == req[r].stopAt = -1 /\ req'[r].stopAt >= 0

\* C2: stopGenerating, invoked while a request of sendMessage is outstanding
\* (also while sendMessage awaits createConversation), leaves loading = false,
\* isThinking = false and abortRef = null, and no token of that request is
\* applied afterwards.
C2_StopAbortsRequest ==
  [][\A r \in Requests :
       /\ StopsNow(r) => ~loading' /\ ~isThinking' /\ abortRef' = 0
       /\ (req[r].stopAt >= 0 /\ Gets(r)) => Delivered(r).kind # "token"]_vars

\* The tokens a call has delivered, concatenated, and its last meta event.
RECURSIVE OwnTokens(_)
OwnTokens(calls) ==
  IF calls = <<>> THEN <<>>
  ELSE LET c == calls[Len(calls)]
           rest == OwnTokens(SubSeq(calls, 1, Len(calls) - 1))
       IN IF c.kind = "token" THEN Concat(rest, c.val) ELSE rest

RECURSIVE OwnMeta(_)
OwnMeta(calls) ==
  IF calls = <<>> THEN NoMeta
  ELSE LET c == calls[Len(calls)]
       IN IF c.kind = "meta" THEN c.val
          ELSE OwnMeta(SubSeq(calls, 1, Len(calls) - 1))

\* A request that is not interrupted: never stopped, never aborted, and its
\* stream is meta and token events followed by done.
Uninterrupted(rec) ==
  /\ rec.stopAt = -1
  /\ ~rec.aborted
  /\ \A i \in 1..Len(rec.calls) : rec.calls[i].kind \in {"meta", "token", "done"}

\* C4: for an uninterrupted request, after each token the last message is the
\* assistant message holding exactly the request's tokens so far, streaming;
\* after done it holds exactly all of them, not streaming, with the sources of
\* the request's last meta event.
C4_TokenAccumulation ==
  [][\A r \in Requests :
       (Gets(r) /\ Uninterrupted(req'[r])) =>
         /\ Delivered(r).kind = "token" =>
              /\ Len(messages') > 0
              /\ Last(messages').role = "assistant"
              /\ Last(messages').content = OwnTokens(req'[r].calls)
              /\ Last(messages').isStreaming
         /\ Delivered(r).kind = "done" =>
              /\ Len(messages') > 0
              /\ Last(messages').role = "assistant"
              /\ Last(messages').content = OwnTokens(req'[r].calls)
              /\ ~Last(messages').isStreaming
              /\ Last(messages').sources = OwnMeta(req'[r].calls)]_vars

\* The request has ended in done, error or stop.
Ended(r) == Terminated(r) \/ req[r].stopAt >= 0

\* The user message of the call r is where sendMessage appended it.
UserMessageInPlace(r) ==
  /\ req[r].upos <= Len(messages)
  /\ messages[req[r].upos].role = "user"
  /\ messages[req[r].upos].content = req[r].q

\* C8: an accepted sendMessage(q) appends the user message and clears the
\* input at once, the streaming placeholder is appended after it, and once the
\* request has ended the user message is still in the list at its position.
C8_OptimisticUserMessage ==
  [][\A r \in Requests :
       /\ (req[r].pc = "unused" /\ req'[r].pc # "unused" /\ ~req'[r].skip) =>
            /\ input' = <<>>
            /\ req'[r].upos = Len(messages) + 1
            /\ UserMessageInPlace(r)'
       /\ (req[r].pc \in {"unused", "creating"} /\ req'[r].pc = "headers") =>
            /\ Last(messages') = Placeholder
            /\ Len(messages') > req'[r].upos
       /\ (req'[r].upos > 0 /\ Ended(r)') => UserMessageInPlace(r)']_vars

(***************************************************************************)
(* Specification of one askQuestionStreaming call: the first request of a  *)
(* session, over a network that can fail, with usage data arriving and     *)
(* navigator.onLine changing.                                              *)
(***************************************************************************)
\* The first form submit / quick question of the session.
FirstSubmit == nreq = 0 /\ Submit
FirstQuickQuestion(q) == nreq = 0 /\ QuickQuestion(q)

NextAsk ==
  \/ \E text \in Inputs : SetInput(text)
  \/ FirstSubmit
  \/ \E q \in QUICK_QUESTIONS : FirstQuickQuestion(q)
  \/ \E u \in ChatUsages : RefreshUsage(u)
  \/ ToggleOnline
  \/ \E r \in Requests, ok \in BOOLEAN : CreateConversationSettled(r, ok)
  \/ StopGenerating
  \/ \E r \in Requests : HeadersResolve(r)
  \/ \E r \in Requests, res \in Responses : FetchResponse(r, res)
  \/ \E r \in Requests : FetchReject(r)
  \/ \E r \in Requests : AbortReject(r)
  \/ \E r \in Requests, ev \in Events : ReadChunk(r, ev)
  \/ \E r \in Requests : ReadDone(r)
  \/ \E r \in Requests : ReadReject(r)
  \/ \E r \in Requests : Timeout(r)
  \/ \E r \in Requests : SaveResolved(r)
  \/ \E r \in Requests : SaveFailed(r)

SpecAsk == Init /\ [][NextAsk]_vars

\* C3: a sendMessage invoked while the usage data are loaded and
\* canPerformAction('questions') is false never calls askQuestionStreaming.
C3_UsageLimitGate ==
  [][\A r \in Requests :
       (req[r].pc \in {"unused", "creating"} /\ req'[r].pc = "headers") =>
         req'[r].gate]_vars

\* The failure of the call r was caught and reported: M is the message that
\* onError received.
Failed(r) == req[r].cause # "none"
Reported(r) == Last(req[r].calls).val

\* The message that corresponds to the cause of the failure alone.
MessageOfCause(rec) ==
  CASE rec.cause = "401" -> ErrorMessages.sessionExpired
    [] rec.cause = "429" -> ErrorMessages.limitExceeded
    [] rec.cause = "503" -> ErrorMessages.maintenance
    [] rec.cause = "detail" -> ServerDetail
    [] rec.cause = "nodetail" -> ErrorMessages.generic
    [] rec.cause = "badjson" -> ErrorMessages.connection
    [] rec.cause = "abort" -> ErrorMessages.timeout
    [] OTHER -> rec.thrown

\* The call never rejects and clears its timer: a failed call has returned
\* after onError, and no returned call has its timer armed.
ReturnsCleanly(r) ==
  /\ req[r].pc = "returned" => ~req[r].timer
  /\ Failed(r) =>
       /\ req[r].pc = "returned"
       /\ Last(req[r].calls).kind = "error"

\* C7 as stated: every failure is reported through onError with the message
\* of its cause (401, 429, 503, other non-OK status, abort, other exception),
\* and with the no-connection message when navigator.onLine is false; the
\* call returns and the timer is cleared.
C7_MessageByCause ==
  \A r \in Requests :
    /\ ReturnsCleanly(r)
    /\ Failed(r) =>
         /\ req[r].cause \in {"401", "429", "503", "detail", "nodetail",
                              "badjson", "abort"} =>
              Reported(r) = MessageOfCause(req[r])
         /\ req[r].offline => Reported(r) = ErrorMessages.offline
         /\ (req[r].cause \in {"network", "nobody"} /\ ~req[r].offline) =>
              Reported(r) = req[r].thrown

\* C7 (amended): an aborted request gets the timeout message; any other
\* failure caught while navigator.onLine is false, an HTTP status included,
\* gets the no-connection message; otherwise the message of the cause; the
\* call returns and the timer is cleared.
C7_ErrorTranslation ==
  \A r \in Requests :
    /\ ReturnsCleanly(r)
    /\ Failed(r) =>
         Reported(r) = IF req[r].cause = "abort" THEN ErrorMessages.timeout
                       ELSE IF req[r].offline THEN ErrorMessages.offline
                       ELSE MessageOfCause(req[r])

\* A 401 response was caught while navigator.onLine was false.
C7_Witness ==
  \E r \in Requests :
    req[r].pc = "returned" /\ req[r].cause = "401" /\ req[r].offline

(***************************************************************************)
(* askQuestionStreaming: the SSE parser (api 66-109).  The response text,  *)
(* the chunks and the buffer are sequences of characters.                  *)
(***************************************************************************)
MaxLines == 2

\* the prefix 'data: '
DataPrefix ==
  <<"d", "a", "t", "a", ":", " ">>

\* {"type":"token","text":"a"}
JsonToken ==
  <<"{", "\"", "t", "y", "p", "e", "\"", ":", "\"", "t", "o", "k", "e",
    "n", "\"", ",", "\"", "t", "e", "x", "t", "\"", ":", "\"", "a", "\"",
    "}">>

\* {"type":"meta","sources":"m1"}
JsonMeta ==
  <<"{", "\"", "t", "y", "p", "e", "\"", ":", "\"", "m", "e", "t", "a",
    "\"", ",", "\"", "s", "o", "u", "r", "c", "e", "s", "\"", ":", "\"",
    "m", "1", "\"", "}">>

\* {"type":"done"}
JsonDone ==
  <<"{", "\"", "t", "y", "p", "e", "\"", ":", "\"", "d", "o", "n", "e",
    "\"", "}">>

\* {"type":"error","message":"e"}
JsonError ==
  <<"{", "\"", "t", "y", "p", "e", "\"", ":", "\"", "e", "r", "r", "o",
    "r", "\"", ",", "\"", "m", "e", "s", "s", "a", "g", "e", "\"", ":",
    "\"", "e", "\"", "}">>

\* an event type the switch does not know: {"type":"ping"}
JsonPing ==
  <<"{", "\"", "t", "y", "p", "e", "\"", ":", "\"", "p", "i", "n", "g",
    "\"", "}">>

\* null
JsonNull ==
  <<"n", "u", "l", "l">>

\* String.prototype.startsWith and slice(n).
StartsWith(s, prefix) ==
  Len(s) >= Len(prefix) /\ SubSeq(s, 1, Len(prefix)) = prefix
Slice(s, n) == SubSeq(s, n + 1, Len(s))

\* buffer.split('\n'): at least one element, the last one is what follows
\* the last newline.
RECURSIVE Split(_)
Split(s) ==
  IF \E i \in 1..Len(s) : s[i] = "\n"
    THEN LET i == CHOOSE k \in 1..Len(s) :
                    s[k] = "\n" /\ \A j \in 1..(k - 1) : s[j] # "\n"
         IN <<SubSeq(s, 1, i - 1)>> \o Split(SubSeq(s, i + 1, Len(s)))
    ELSE <<s>>

\* JSON.parse on the texts a line of the modelled responses can carry: the
\* value parsed, or a SyntaxError thrown.
JSONValue(isNull, type, text, message, sources) ==
  [threw |-> FALSE, isNull |-> isNull, type |-> type, text |-> text,
   message |-> message, sources |-> sources]
SyntaxError ==
  [threw |-> TRUE, isNull |-> FALSE, type |-> NoMeta, text |-> NoMeta,
   message |-> NoMeta, sources |-> NoMeta]
JSONParse(s) ==
  CASE s = JsonToken -> JSONValue(FALSE, "token", "a", NoMeta, NoMeta)
    [] s = JsonMeta -> JSONValue(FALSE, "meta", NoMeta, NoMeta, "m1")
    [] s = JsonDone -> JSONValue(FALSE, "done", NoMeta, NoMeta, NoMeta)
    [] s = JsonError -> JSONValue(FALSE, "error", NoMeta, "e", NoMeta)
    [] s = JsonPing -> JSONValue(FALSE, "ping", NoMeta, NoMeta, NoMeta)
    [] s = JsonNull -> JSONValue(TRUE, NoMeta, NoMeta, NoMeta, NoMeta)
    [] OTHER -> SyntaxError

\* api 80-107, the body of the for loop: the callback called for one line.
\* JSON.parse throwing, and event.type of null throwing, are caught (105).
Dispatch(line) ==
  IF ~StartsWith(line, DataPrefix) THEN <<>>
  ELSE LET jsonStr == Trim(Slice(line, 6)) IN
    IF jsonStr = <<>> THEN <<>>
    ELSE LET event == JSONParse(jsonStr) IN
      IF event.threw \/ event.isNull THEN <<>>
      ELSE CASE event.type = "meta" -> <<Call("meta", event.sources)>>
             [] event.type = "token" -> <<Call("token", event.text)>>
             [] event.type = "done" -> <<Call("done", "")>>
             [] event.type = "error" -> <<Call("error", event.message)>>
             [] OTHER -> <<>>

RECURSIVE DispatchAll(_)
DispatchAll(lines) ==
  IF lines = <<>> THEN <<>>
  ELSE Dispatch(Head(lines)) \o DispatchAll(Tail(lines))

\* The parser forgetting the incomplete line.
DropIncomplete(lines) == <<>>

\* buffer = lines.pop() || '': the incomplete line stays in the buffer.
PoppedBuffer(lines) == Last(lines)

\* One turn of the while loop (api 69-108): reader.read resolves with the
\* next n characters of the response.
ReadAndParse(n) ==
  /\ n \in 1..(Len(sseText) - ssePos)
  /\ LET value == SubSeq(sseText, ssePos + 1, ssePos + n)
         buffer == sseBuffer \o value
         lines == Split(buffer)
     IN /\ sseBuffer' = PoppedBuffer(lines)
        /\ sseCalls' = sseCalls \o DispatchAll(SubSeq(lines, 1, Len(lines) - 1))
  /\ ssePos' = ssePos + n
  /\ UNCHANGED <<sseText, chatVars, ucVars, dbVars, mwVars, planVars>>

\* The lines of the modelled responses, without their newline: the four
\* events, an unknown type, null, malformed JSON, an event followed by a
\* carriage return, nothing after the prefix, a blank line, another prefix,
\* the prefix without its space.
SseLines ==
  LET JsonCut == <<"{", "\"", "t", "y", "p", "e", "\"", ":">>
      CommentLine == <<":", " ", "h", "b">>
      NoSpacePrefix == <<"d", "a", "t", "a", ":">>
  IN {DataPrefix \o JsonToken, DataPrefix \o JsonMeta, DataPrefix \o JsonDone,
      DataPrefix \o JsonError, DataPrefix \o JsonPing, DataPrefix \o JsonNull,
      DataPrefix \o JsonCut, DataPrefix \o JsonDone \o <<"\r">>,
      DataPrefix \o <<" ">>, <<>>, CommentLine, NoSpacePrefix \o JsonDone}

\* What follows the last newline of a response: nothing, or an event whose
\* newline has not arrived.
SseTails == {<<>>, DataPrefix \o JsonToken}

RECURSIVE TextsOfLines(_)
TextsOfLines(n) ==
  IF n = 0 THEN {<<>>}
  ELSE {l \o <<"\n">> \o t : l \in SseLines, t \in TextsOfLines(n - 1)}

SseTexts ==
  {t \o tail : t \in UNION {TextsOfLines(n) : n \in 0..MaxLines},
               tail \in SseTails}

InitParse ==
  /\ ChatIdle /\ UcIdle /\ DbIdle /\ MwIdle /\ PlanIdle
  /\ sseText \in SseTexts
  /\ ssePos = 0
  /\ sseBuffer = <<>>
  /\ sseCalls = <<>>

NextParse == \E n \in 1..(Len(sseText) - ssePos) : ReadAndParse(n)

SpecParse == InitParse /\ [][NextParse]_vars

\* The call that a whole line stands for: one for each of the four events
\* on a 'data: ' line, none for any other line.
CallOfLine(line) ==
  CASE line = DataPrefix \o JsonToken -> <<Call("token", "a")>>
    [] line = DataPrefix \o JsonMeta -> <<Call("meta", "m1")>>
    [] line = DataPrefix \o JsonDone -> <<Call("done", "")>>
    [] line = DataPrefix \o JsonDone \o <<"\r">> -> <<Call("done", "")>>
    [] line = DataPrefix \o JsonError -> <<Call("error", "e")>>
    [] OTHER -> <<>>

\* The calls of the newline-terminated lines of text, in order: those of the
\* lines before the last one, then that of the line between the last two
\* newlines.
Newlines(text) == {i \in 1..Len(text) : text[i] = "\n"}
Latest(S) == CHOOSE i \in S : \A j \in S : j <= i
RECURSIVE ExpectedCalls(_)
ExpectedCalls(text) ==
  IF Newlines(text) = {} THEN <<>>
  ELSE LET k == Latest(Newlines(text))
           p == Latest({0} \cup (Newlines(text) \ {k}))
       IN ExpectedCalls(SubSeq(text, 1, p)) \o CallOfLine(SubSeq(text, p + 1, k - 1))

\* C5: however the response is cut into chunks, the callbacks called once
\* the first ssePos characters have been read are those of the
\* newline-terminated lines among these characters, in order; so after the
\* whole text every chunking has made the same calls.
C5_ChunkIndependence == sseCalls = ExpectedCalls(SubSeq(sseText, 1, ssePos))

\* A chunk has ended inside the 'data: ' prefix of a line, after the lines
\* before it made two calls or more.
C5_Witness ==
  /\ Len(sseCalls) >= 2
  /\ sseBuffer = <<"d", "a", "t">>
  /\ ssePos < Len(sseText)

(***************************************************************************)
(* Specification of canPerformAction: one evaluation on usage data drawn   *)
(* from bounded sets.                                                      *)
(***************************************************************************)
MaxCount == 1

\* Limits of a plan: -1 or a number up to MaxCount.  Counters: up to
\* MaxCount, and the default limits of the daily and monthly questions.
\* The UsageData that getUsage can return, and null.
Usages ==
  LET LimitValues == {Unlimited} \cup 0..MaxCount
      CountValues == 0..MaxCount \cup {3, 30}
      UsageLimits ==
        [questions_per_day : LimitValues, questions_per_month : LimitValues,
         drafts_per_month : LimitValues, deadlines_per_month : LimitValues]
  IN
  {NoUsage} \cup
  {Usage(TRUE, hasLimits = "yes",
         IF hasLimits = "yes" THEN limits ELSE DEFAULT_LIMITS,
         [questions_count |-> today],
         [questions |-> questions, drafts |-> drafts, deadlines |-> deadlines]) :
     hasLimits \in {"yes", "no"}, limits \in UsageLimits,
     today \in CountValues, questions \in CountValues,
     drafts \in CountValues, deadlines \in CountValues}

\* ucResult holds the boolean returned as "true" / "false".
BoolResult(b) == IF b THEN "true" ELSE "false"

\* A component calls canPerformAction(action).
Evaluate(action) ==
  /\ ucAction' = action
  /\ ucResult' = BoolResult(CanPerformAction(usage, action))
  /\ UNCHANGED <<chatVars, parseVars, dbVars, mwVars, planVars>>

InitUsage ==
  /\ SessionIdle /\ ParseIdle /\ UcIdle /\ DbIdle /\ MwIdle /\ PlanIdle
  /\ usage \in Usages

NextUsage == \E action \in ActionKinds : Evaluate(action)

SpecUsage == InitUsage /\ [][NextUsage]_vars

\* The limit of the action evaluated is reached: the daily or the monthly
\* one for questions, the monthly one for drafts and deadlines.
LimitReached(limit, count) == limit # -1 /\ count >= limit
Exhausted(u, action) ==
  LET limits == IF u.hasLimits THEN u.limits ELSE DEFAULT_LIMITS IN
  \/ /\ action = "questions"
     /\ \/ LimitReached(limits.questions_per_day, u.today.questions_count)
        \/ LimitReached(limits.questions_per_month, u.monthly.questions)
  \/ /\ action = "drafts"
     /\ LimitReached(limits.drafts_per_month, u.monthly.drafts)
  \/ /\ action = "deadlines"
     /\ LimitReached(limits.deadlines_per_month, u.monthly.deadlines)

\* C6: with usage loaded canPerformAction returns false exactly when a limit
\* of the action that is not -1 is reached (count >= limit); with usage not
\* loaded it returns true for every action.
C6_CanPerformAction ==
  ucResult # "none" =>
    ucResult = BoolResult(~(usage.loaded /\ Exhausted(usage, ucAction)))

\* 'questions' was refused because of the monthly limit alone.
C6_Witness ==
  /\ ucResult = "false"
  /\ ucAction = "questions"
  /\ usage.hasLimits
  /\ usage.limits.questions_per_day = Unlimited
  /\ usage.monthly.questions = usage.limits.questions_per_month

(***************************************************************************)
(* Row-level security of conversations and messages (supabase_setup.sql).  *)
(* A row of conversations is [id, user_id], a row of messages is           *)
(* [id, conversation_id]; the other columns take no part in the policies.  *)
(* dbLog is the last statement: who ran it, which it was, and the owners   *)
(* of the rows it returned, inserted, updated or deleted.                  *)
(***************************************************************************)
MaxRows == 2

Users == {"A", "B"}
\* Who runs a statement: a signed-in user, or the anon role, whose auth.uid()
\* is NULL.
Actors == Users \cup {"anon"}
Null == "NULL"
AuthUid(actor) == IF actor \in Users THEN actor ELSE Null

ConvIds == 1..MaxRows
MsgIds == 1..MaxRows

\* x = y in SQL is true only for two values that are not NULL.
SqlEq(x, y) == x # Null /\ y # Null /\ x = y

\* Conversations policies (36-51).  The UPDATE policy has no WITH CHECK, so
\* its USING expression also checks the new row.
ConvSelectUsing(uid, row) == SqlEq(uid, row.user_id)
ConvInsertCheck(uid, row) == SqlEq(uid, row.user_id)
ConvUpdateUsing(uid, row) == SqlEq(uid, row.user_id)
ConvUpdateCheck(uid, row) == ConvUpdateUsing(uid, row)
ConvDeleteUsing(uid, row) == SqlEq(uid, row.user_id)

\* SELECT id FROM conversations WHERE user_id = auth.uid(), run by the same
\* role and so under the SELECT policy of conversations.
OwnConversationIds(uid) ==
  {c.id : c \in {row \in conversations :
                   ConvSelectUsing(uid, row) /\ SqlEq(row.user_id, uid)}}

\* A policy on messages that only asks for the conversation to exist.
MsgInsertCheckAnyConversation(uid, row) ==
  row.conversation_id \in {c.id : c \in conversations}

\* Messages policies (54-76); there is none for UPDATE, which RLS then allows
\* for no row.
MsgSelectUsing(uid, row) == row.conversation_id \in OwnConversationIds(uid)
MsgInsertCheck(uid, row) == row.conversation_id \in OwnConversationIds(uid)
MsgDeleteUsing(uid, row) == row.conversation_id \in OwnConversationIds(uid)
MsgUpdateUsing(uid, row) == FALSE

\* The owner of a row: the user_id of the conversation, for a message that
\* of its conversation.
ConvOwners(rows) == {row.user_id : row \in rows}
MsgOwners(rows, convs) ==
  {c.user_id : c \in {x \in convs : \E m \in rows : m.conversation_id = x.id}}

Log(actor, op, owners) == [actor |-> actor, op |-> op, owners |-> owners]

\* The WHERE clause of a statement: id = some id, or none.
Filters(ids) == {{i} : i \in ids} \cup {ids}

dbIdle == <<chatVars, parseVars, ucVars, mwVars, planVars>>

SelectConversations(actor, filter) ==
  LET rows == {row \in conversations :
                 row.id \in filter /\ ConvSelectUsing(AuthUid(actor), row)}
  IN /\ dbLog' = Log(actor, "select conversations", ConvOwners(rows))
     /\ UNCHANGED <<conversations, dbMessages, dbIdle>>

\* INSERT INTO conversations: the primary key must be new and the row must
\* pass WITH CHECK, else the statement fails.
InsertConversation(actor, row) ==
  LET ok == /\ \A c \in conversations : c.id # row.id
            /\ ConvInsertCheck(AuthUid(actor), row)
  IN /\ conversations' = IF ok THEN conversations \cup {row} ELSE conversations
     /\ dbLog' = Log(actor, IF ok THEN "insert conversation" ELSE "error",
                     IF ok THEN ConvOwners({row}) ELSE {})
     /\ UNCHANGED <<dbMessages, dbIdle>>

\* UPDATE conversations SET user_id = ...: the rows that pass USING are
\* updated, and each new row must pass the check, else the statement fails.
UpdateConversation(actor, filter, user_id) ==
  LET rows == {row \in conversations :
                 row.id \in filter /\ ConvUpdateUsing(AuthUid(actor), row)}
      new == {[row EXCEPT !.user_id = user_id] : row \in rows}
      ok == \A row \in new : ConvUpdateCheck(AuthUid(actor), row)
  IN /\ conversations' = IF ok THEN (conversations \ rows) \cup new
                         ELSE conversations
     /\ dbLog' = Log(actor, IF ok THEN "update conversations" ELSE "error",
                     IF ok THEN ConvOwners(rows) \cup ConvOwners(new) ELSE {})
     /\ UNCHANGED <<dbMessages, dbIdle>>

\* DELETE FROM conversations: the rows that pass USING are deleted, and ON
\* DELETE CASCADE deletes their messages.
DeleteConversation(actor, filter) ==
  LET rows == {row \in conversations :
                 row.id \in filter /\ ConvDeleteUsing(AuthUid(actor), row)}
      cascade == {m \in dbMessages : \E c \in rows : m.conversation_id = c.id}
  IN /\ conversations' = conversations \ rows
     /\ dbMessages' = dbMessages \ cascade
     /\ dbLog' = Log(actor, "delete conversations",
                     ConvOwners(rows) \cup MsgOwners(cascade, conversations))
     /\ UNCHANGED dbIdle

SelectMessages(actor, filter) ==
  LET rows == {row \in dbMessages :
                 row.id \in filter /\ MsgSelectUsing(AuthUid(actor), row)}
  IN /\ dbLog' = Log(actor, "select messages", MsgOwners(rows, conversations))
     /\ UNCHANGED <<conversations, dbMessages, dbIdle>>

\* INSERT INTO messages: new primary key, existing conversation (foreign
\* key), WITH CHECK.
InsertMessage(actor, row) ==
  LET ok == /\ \A m \in dbMessages : m.id # row.id
            /\ \E c \in conversations : c.id = row.conversation_id
            /\ MsgInsertCheck(AuthUid(actor), row)
  IN /\ dbMessages' = IF ok THEN dbMessages \cup {row} ELSE dbMessages
     /\ dbLog' = Log(actor, IF ok THEN "insert message" ELSE "error",
                     IF ok THEN MsgOwners({row}, conversations) ELSE {})
     /\ UNCHANGED <<conversations, dbIdle>>

\* UPDATE messages SET conversation_id = ...
UpdateMessage(actor, filter, conversation_id) ==
  LET rows == {row \in dbMessages :
                 row.id \in filter /\ MsgUpdateUsing(AuthUid(actor), row)}
      new == {[row EXCEPT !.conversation_id = conversation_id] : row \in rows}
  IN /\ dbMessages' = (dbMessages \ rows) \cup new
     /\ dbLog' = Log(actor, "update messages",
                     MsgOwners(rows, conversations) \cup MsgOwners(new, conversations))
     /\ UNCHANGED <<conversations, dbIdle>>

DeleteMessage(actor, filter) ==
  LET rows == {row \in dbMessages :
                 row.id \in filter /\ MsgDeleteUsing(AuthUid(actor), row)}
  IN /\ dbMessages' = dbMessages \ rows
     /\ dbLog' = Log(actor, "delete messages", MsgOwners(rows, conversations))
     /\ UNCHANGED <<conversations, dbIdle>>

InitRLS ==
  /\ ChatIdle /\ ParseIdle /\ UcIdle /\ MwIdle /\ PlanIdle
  /\ conversations = {}
  /\ dbMessages = {}
  /\ dbLog = Log("anon", "none", {})

NextRLS ==
  \E actor \in Actors :
    \/ \E filter \in Filters(ConvIds) : SelectConversations(actor, filter)
    \/ \E id \in ConvIds, user_id \in Users :
         InsertConversation(actor, [id |-> id, user_id |-> user_id])
    \/ \E filter \in Filters(ConvIds), user_id \in Users :
         UpdateConversation(actor, filter, user_id)
    \/ \E filter \in Filters(ConvIds) : DeleteConversation(actor, filter)
    \/ \E filter \in Filters(MsgIds) : SelectMessages(actor, filter)
    \/ \E id \in MsgIds, conversation_id \in ConvIds :
         InsertMessage(actor, [id |-> id, conversation_id |-> conversation_id])
    \/ \E filter \in Filters(MsgIds), conversation_id \in ConvIds :
         UpdateMessage(actor, filter, conversation_id)
    \/ \E filter \in Filters(MsgIds) : DeleteMessage(actor, filter)

SpecRLS == InitRLS /\ [][NextRLS]_vars

\* The conversations and the messages a user owns.
ConversationsOf(u) == {c \in conversations : c.user_id = u}
MessagesOf(u) ==
  {m \in dbMessages : \E c \in ConversationsOf(u) : c.id = m.conversation_id}

\* C9: every row a statement returns, inserts, updates or deletes is owned by
\* the user who runs it (a conversation with his user_id, a message of such
\* a conversation), and the statement leaves the conversations and messages
\* of every other user as they were.
C9_RowLevelSecurity ==
  [][/\ dbLog'.owners \subseteq {dbLog'.actor}
     /\ \A u \in Users \ {dbLog'.actor} :
          /\ ConversationsOf(u)' = ConversationsOf(u)
          /\ MessagesOf(u)' = MessagesOf(u)]_vars

\* A has selected messages and got his own while B has a conversation with a
\* message.
C9_Witness ==
  /\ dbLog = Log("A", "select messages", {"A"})
  /\ MessagesOf("B") # {}

(***************************************************************************)
(* The authentication middleware (middleware.ts).  A path is a sequence of *)
(* characters.                                                             *)
(***************************************************************************)
MaxSegments == 2

\* The string literals of the middleware and of its matcher.
PathLogin == <<"/", "l", "o", "g", "i", "n">>
PathAuth == <<"/", "a", "u", "t", "h">>
PathPrivacy == <<"/", "p", "r", "i", "v", "a", "c", "y">>
PathChat == <<"/", "c", "h", "a", "t">>
PathSlash == <<"/">>
ExtPng == <<".", "p", "n", "g">>

\* String.prototype.endsWith and includes.
EndsWith(s, suffix) ==
  Len(s) >= Len(suffix) /\ SubSeq(s, Len(s) - Len(suffix) + 1, Len(s)) = suffix
Includes(s, part) ==
  \E i \in 1..(Len(s) - Len(part) + 1) : SubSeq(s, i, i + Len(part) - 1) = part

\* config.matcher (73): the pattern after the leading slash, a negative
\* lookahead of prefixes (a dot of the pattern matches any character) and of
\* the image extensions at the end of the path.
Matched(pathname) ==
  LET rest == Slice(pathname, 1)
      NextStatic == <<"_", "n", "e", "x", "t", "/", "s", "t", "a", "t", "i", "c">>
      NextImage == <<"_", "n", "e", "x", "t", "/", "i", "m", "a", "g", "e">>
      Favicon == <<"f", "a", "v", "i", "c", "o", "n">>
      Ico == <<"i", "c", "o">>
      ManifestJson == <<"m", "a", "n", "i", "f", "e", "s", "t", ".", "j", "s", "o", "n">>
      SwJs == <<"s", "w", ".", "j", "s">>
      Workbox == <<"w", "o", "r", "k", "b", "o", "x", "-">>
      ExtJs == <<".", "j", "s">>
      Icons == <<"i", "c", "o", "n", "s", "/">>
      WellKnown == <<".", "w", "e", "l", "l", "-", "k", "n", "o", "w", "n", "/">>
      Api == <<"a", "p", "i", "/">>
      ExtSvg == <<".", "s", "v", "g">>
      ExtJpg == <<".", "j", "p", "g">>
      ExtJpeg == <<".", "j", "p", "e", "g">>
      ExtGif == <<".", "g", "i", "f">>
      ExtWebp == <<".", "w", "e", "b", "p">>
  IN
  /\ StartsWith(pathname, PathSlash)
  /\ ~StartsWith(rest, NextStatic)
  /\ ~StartsWith(rest, NextImage)
  /\ ~(StartsWith(rest, Favicon) /\ Len(rest) > Len(Favicon)
         /\ StartsWith(Slice(rest, Len(Favicon) + 1), Ico))
  /\ ~StartsWith(rest, ManifestJson)
  /\ ~StartsWith(rest, SwJs)
  /\ ~(StartsWith(rest, Workbox) /\ Includes(Slice(rest, Len(Workbox)), ExtJs))
  /\ ~StartsWith(rest, Icons)
  /\ ~StartsWith(rest, WellKnown)
  /\ ~StartsWith(rest, Api)
  /\ \A ext \in {ExtSvg, ExtPng, ExtJpg, ExtJpeg, ExtGif, ExtWebp} :
       ~EndsWith(rest, ext)

\* getUser: the user of the session cookie, or null.
NoUser == "null"

\* The redirect condition written with includes instead of startsWith.
RequiresLoginIncludes(user, pathname) ==
  /\ user = NoUser
  /\ ~Includes(pathname, PathLogin)
  /\ ~Includes(pathname, PathAuth)
  /\ ~Includes(pathname, PathPrivacy)

\* middleware.ts 43-48: the condition of the redirect to /login.
RequiresLogin(user, pathname) ==
  /\ user = NoUser
  /\ ~StartsWith(pathname, PathLogin)
  /\ ~StartsWith(pathname, PathAuth)
  /\ ~StartsWith(pathname, PathPrivacy)

\* middleware(request): "next" is the pass-through response
\* (NextResponse.next(), supabaseResponse).
Middleware(request) ==
  IF ~request.configured THEN "next"
  ELSE IF RequiresLogin(request.user, request.pathname) THEN "redirect /login"
  ELSE IF request.user # NoUser /\ StartsWith(request.pathname, PathLogin)
    THEN "redirect /chat"
  ELSE "next"

\* A request arrives: the middleware runs when the matcher matches the path.
HandleRequest(request) ==
  /\ mwRequest' = request
  /\ mwResponse' = IF Matched(request.pathname) THEN Middleware(request)
                   ELSE "not run"
  /\ UNCHANGED <<chatVars, parseVars, ucVars, dbVars, planVars>>

\* The paths requested: up to MaxSegments of these pieces in a row.
Segments ==
  LET PathApi == <<"/", "a", "p", "i">>
      PathNextStatic == <<"/", "_", "n", "e", "x", "t", "/", "s", "t", "a", "t", "i", "c">>
  IN {PathLogin, PathAuth, PathPrivacy, PathChat, PathApi, PathNextStatic,
      PathSlash, ExtPng}

RECURSIVE PathsOf(_)
PathsOf(n) ==
  IF n = 0 THEN {<<>>}
  ELSE {p \o seg : p \in PathsOf(n - 1), seg \in Segments}

Paths ==
  {p \in UNION {PathsOf(n) : n \in 1..MaxSegments} : StartsWith(p, PathSlash)}

InitMW ==
  /\ ChatIdle /\ ParseIdle /\ UcIdle /\ DbIdle /\ MwIdle /\ PlanIdle

\* A request for any of the paths, with or without the session of user A,
\* with Supabase configured or not.
NextMW ==
  \E request \in [pathname : Paths, user : {NoUser, "A"}, configured : BOOLEAN] :
    HandleRequest(request)

SpecMW == InitMW /\ [][NextMW]_vars

\* The middleware ran on a request without a user, Supabase configured.
Unauthenticated ==
  /\ mwResponse \notin {"none", "not run"}
  /\ mwRequest.configured
  /\ mwRequest.user = NoUser

MaxSubs == 3
SubIds == 1..MaxSubs

\* CHECK (status IN ('active','canceled','past_due','expired'))
SubStatuses == {"active", "canceled", "past_due", "expired"}

\* The index with another predicate: WHERE status = 'past_due'.
IdxUserPastDueSub(rows) ==
  \A a, b \in {row \in rows : row.status = "past_due"} :
    a.user_id = b.user_id => a = b

\* CREATE UNIQUE INDEX idx_user_active_sub ON user_subscriptions(user_id)
\* WHERE status = 'active': among the rows the predicate selects, the indexed
\* column is unique.
IdxUserActiveSub(rows) ==
  \A a, b \in {row \in rows : row.status = "active"} :
    a.user_id = b.user_id => a = b

\* The statement a client sent last and whether the store raised an error.
Statement(op, ids, user_id, status, error) ==
  [op |-> op, ids |-> ids, user_id |-> user_id, status |-> status,
   error |-> error]

\* INSERT INTO user_subscriptions (id, user_id, status) VALUES (...): the
\* primary key, the CHECK and the unique index are verified by the statement;
\* a violation raises an error and the statement has no effect.
InsertSubscription(id, user_id, status) ==
  LET row == [id |-> id, user_id |-> user_id, status |-> status]
      after == user_subscriptions \cup {row}
      ok == /\ \A old \in user_subscriptions : old.id # id
            /\ status \in SubStatuses
            /\ IdxUserActiveSub(after)
  IN /\ user_subscriptions' = IF ok THEN after ELSE user_subscriptions
     /\ dbLog' = Statement("insert", {id}, user_id, status, ~ok)
     /\ UNCHANGED <<chatVars, parseVars, ucVars, mwVars, conversations, dbMessages>>
     /\ UNCHANGED <<usage_tracking, incCalls, message_feedback, modelMode,
                    subscription>>

\* UPDATE user_subscriptions SET status = ... WHERE id IN (...): every row
\* written is verified against the CHECK and the index; one violation undoes
\* the whole statement.
UpdateSubscriptionStatus(ids, status) ==
  LET after == {IF row.id \in ids THEN [row EXCEPT !.status = status] ELSE row :
                  row \in user_subscriptions}
      touched == \E row \in user_subscriptions : row.id \in ids
      ok == ~touched \/ (status \in SubStatuses /\ IdxUserActiveSub(after))
  IN /\ user_subscriptions' = IF ok THEN after ELSE user_subscriptions
     /\ dbLog' = Statement("update", ids, "any", status, ~ok)
     /\ UNCHANGED <<chatVars, parseVars, ucVars, mwVars, conversations, dbMessages>>
     /\ UNCHANGED <<usage_tracking, incCalls, message_feedback, modelMode,
                    subscription>>

InitSub ==
  /\ ChatIdle /\ ParseIdle /\ UcIdle /\ MwIdle
  /\ conversations = {} /\ dbMessages = {}
  /\ dbLog = Statement("none", {}, "any", "active", FALSE)
  /\ PlanIdle

\* Statements of any number of clients, in any order; each statement is atomic
\* in the store. The statuses written are 'active', one of the other three
\* the CHECK admits, and 'trialing', which it does not admit.
NextSub ==
  LET written == {"active", "canceled", "trialing"}
  IN \/ \E id \in SubIds, user_id \in Users, status \in written :
          InsertSubscription(id, user_id, status)
     \/ \E ids \in SUBSET SubIds, status \in written :
          UpdateSubscriptionStatus(ids, status)

SpecSub == InitSub /\ [][NextSub]_vars

ActiveOf(rows, u) == {row \in rows : row.user_id = u /\ row.status = "active"}

\* What the statement logged in the next state would make of the table were
\* it applied without any verification.
Unverified ==
  LET st == dbLog'
  IN IF st.op = "insert"
     THEN user_subscriptions \cup
            {[id |-> i, user_id |-> st.user_id, status |-> st.status] : i \in st.ids}
     ELSE {IF row.id \in st.ids THEN [row EXCEPT !.status = st.status] ELSE row :
             row \in user_subscriptions}

\* C11: after every insert or status update a user has at most one row with
\* status 'active'; a statement that would give a user a second active row
\* raises an error, and a statement that raises an error leaves the table
\* unchanged.
C11_OneActivePerUser ==
  [][/\ \A u \in Users : Cardinality(ActiveOf(user_subscriptions', u)) <= 1
     /\ (\E u \in Users : Cardinality(ActiveOf(Unverified, u)) > 1) => dbLog'.error
     /\ dbLog'.error => user_subscriptions' = user_subscriptions]_vars

\* A second active row for user A was refused while A has an active row and a
\* canceled one, and B has an active row.
C11_Witness ==
  /\ dbLog.error /\ dbLog.status = "active" /\ dbLog.op = "update"
  /\ Cardinality(ActiveOf(user_subscriptions, "A")) = 1
  /\ Cardinality(ActiveOf(user_subscriptions, "B")) = 1
  /\ \E row \in user_subscriptions :
       row.user_id = "A" /\ row.status = "canceled" /\ row.id \in dbLog.ids


(***************************************************************************)
(* usage_tracking and increment_usage(p_user_id, p_field)                  *)
(*                                                                         *)
(* Each call runs in a transaction of its own at READ COMMITTED. A row is  *)
(* kept with its newest version (counts), its committed version, the       *)
(* transaction whose INSERT made it while that is not committed (xmin, 0   *)
(* afterwards) and the transaction that holds its row lock (0: none).      *)
(***************************************************************************)
MaxCalls == 3
Calls == 1..MaxCalls

Counters == {"questions_count", "drafts_count", "deadlines_count"}
Today == "today"

\* questions_count, drafts_count, deadlines_count of a row.
Counts(q, d, l) ==
  [f \in Counters |-> CASE f = "questions_count" -> q
                        [] f = "drafts_count" -> d
                        [] OTHER -> l]

NoCall == [pc |-> "none", p_user_id |-> "A", p_field |-> "questions_count",
           v_count |-> 0, overlapped |-> FALSE]
InProgress(c) == incCalls.call[c].pc \in {"insert", "update", "returned"}

\* UNIQUE(user_id, date): the rows that conflict with the row of the call.
SameUserAndDate(c) ==
  {row \in usage_tracking :
     row.user_id = incCalls.call[c].p_user_id /\ row.date = Today}

\* A statement that never waits for another transaction.
WaitsForNone(c, row) == FALSE

\* A statement that writes a row, or inserts a row with the same unique key,
\* waits while another transaction that has not ended holds the row.
WaitsFor(c, row) == row.lock \notin {0, c}

incIdle == <<chatVars, parseVars, ucVars, dbVars, mwVars, user_subscriptions,
             message_feedback, modelMode, subscription>>

\* supabase.rpc('increment_usage', ...): a call begins.
CallIncrementUsage(c, p_user_id, p_field) ==
  /\ incCalls.call[c].pc = "none"
  /\ \A b \in 1..(c - 1) : incCalls.call[b].pc # "none"
  /\ incCalls' = [incCalls EXCEPT !.call[c] =
                    [pc |-> "insert", p_user_id |-> p_user_id,
                     p_field |-> p_field, v_count |-> 0,
                     overlapped |-> \E b \in Calls : InProgress(b)]]
  /\ UNCHANGED <<usage_tracking, incIdle>>

\* INSERT INTO usage_tracking (...) VALUES (p_user_id, CURRENT_DATE, 0, 0, 0)
\* ON CONFLICT (user_id, date) DO NOTHING
IncInsert(c) ==
  /\ incCalls.call[c].pc = "insert"
  /\ \A row \in SameUserAndDate(c) : ~WaitsFor(c, row)
  /\ usage_tracking' =
       IF SameUserAndDate(c) = {}
       THEN usage_tracking \cup
              {[user_id |-> incCalls.call[c].p_user_id, date |-> Today,
                counts |-> Counts(0, 0, 0), committed |-> Counts(0, 0, 0),
                xmin |-> c, lock |-> c]}
       ELSE usage_tracking
  /\ incCalls' = [incCalls EXCEPT !.call[c].pc = "update"]
  /\ UNCHANGED incIdle

\* UPDATE usage_tracking SET f = f + 1 WHERE user_id = $1 AND date =
\* CURRENT_DATE RETURNING f INTO v_count: the statement sees the rows that are
\* committed and those its own transaction wrote, locks each row it writes,
\* and starts from the newest committed version of a row it waited for.
\* Without a row, v_count stays NULL, written -1.
IncUpdate(c) ==
  LET f == incCalls.call[c].p_field
      visible == {row \in SameUserAndDate(c) : row.xmin \in {0, c}}
      Base(row) == IF row.lock = c THEN row.counts ELSE row.committed
      Written(row) == [row EXCEPT !.counts = [Base(row) EXCEPT ![f] = @ + 1],
                                  !.lock = c]
  IN /\ incCalls.call[c].pc = "update"
     /\ \A row \in visible : ~WaitsFor(c, row)
     /\ usage_tracking' = (usage_tracking \ visible) \cup
                            {Written(row) : row \in visible}
     /\ incCalls' = [incCalls EXCEPT
          !.call[c].pc = "returned",
          !.call[c].v_count =
             IF visible = {} THEN -1
             ELSE Written(CHOOSE row \in visible : TRUE).counts[f]]
     /\ UNCHANGED incIdle

\* RETURN v_count ends the statement that called the function; its
\* transaction commits and releases the locks.
IncCommit(c) ==
  /\ incCalls.call[c].pc = "returned"
  /\ usage_tracking' =
       {IF row.lock = c
        THEN [row EXCEPT !.committed = row.counts, !.xmin = 0, !.lock = 0]
        ELSE row : row \in usage_tracking}
  /\ incCalls' = [incCalls EXCEPT !.call[c].pc = "done"]
  /\ UNCHANGED incIdle

\* No row yet, or the rows of user A of today and of the day before.
InitInc ==
  /\ ChatIdle /\ ParseIdle /\ UcIdle /\ DbIdle /\ MwIdle
  /\ user_subscriptions = {} /\ message_feedback = {}
  /\ modelMode = "2.1" /\ subscription = "null"
  /\ usage_tracking \in
       {{}, {[user_id |-> "A", date |-> d, counts |-> Counts(1, 0, 1),
              committed |-> Counts(1, 0, 1), xmin |-> 0, lock |-> 0] :
               d \in {Today, "yesterday"}}}
  /\ incCalls = [before |-> usage_tracking, call |-> [c \in Calls |-> NoCall]]

NextInc ==
  \/ \E c \in Calls, p_user_id \in Users,
        p_field \in {"questions_count", "drafts_count"} :
       CallIncrementUsage(c, p_user_id, p_field)
  \/ \E c \in Calls : IncInsert(c)
  \/ \E c \in Calls : IncUpdate(c)
  \/ \E c \in Calls : IncCommit(c)

SpecInc == InitInc /\ [][NextInc]_vars

CallsOf(u, f) ==
  {c \in Calls : /\ incCalls.call[c].pc # "none"
                 /\ incCalls.call[c].p_user_id = u
                 /\ incCalls.call[c].p_field = f}

\* The counter f of user u for today in a table; 0 without a row.
CountIn(rows, u, f) ==
  LET today == {row \in rows : row.user_id = u /\ row.date = Today}
  IN IF today = {} THEN 0 ELSE (CHOOSE row \in today : TRUE).counts[f]

\* C12: when the calls that began have all ended, a user with n calls on a
\* field has exactly one row for today, the field grew by n, the n calls
\* returned the n values after the former count, and every row nobody
\* incremented is as it was.
C12_IncrementUsageAtomic ==
  (\A c \in Calls : incCalls.call[c].pc \in {"none", "done"}) =>
    /\ \A u \in Users :
         /\ (\E f \in Counters : CallsOf(u, f) # {}) =>
               Cardinality({row \in usage_tracking :
                              row.user_id = u /\ row.date = Today}) = 1
         /\ \A f \in Counters :
              LET n == Cardinality(CallsOf(u, f))
                  was == CountIn(incCalls.before, u, f)
              IN /\ CountIn(usage_tracking, u, f) = was + n
                 /\ {incCalls.call[c].v_count : c \in CallsOf(u, f)} =
                      (was + 1)..(was + n)
    /\ \A row \in incCalls.before :
         (row.date # Today \/ \A f \in Counters : CallsOf(row.user_id, f) = {})
           => row \in usage_tracking

\* Three calls for the same user and counter, begun while another was under
\* way and while no row existed, have all ended.
C12_Witness ==
  /\ incCalls.before = {}
  /\ \A c \in Calls : incCalls.call[c].pc = "done"
  /\ CallsOf("B", "drafts_count") = Calls
  /\ \A c \in Calls \ {1} : incCalls.call[c].overlapped


(***************************************************************************)
(* Foreign keys of messages and message_feedback                           *)
(*                                                                         *)
(* Statements as the table owner sees them (row-level security is the      *)
(* subject of SpecRLS): conversations rows [id, user_id], messages rows    *)
(* [id, conversation_id, role], message_feedback rows [message_id,         *)
(* conversation_id] of one user, unique per message.                       *)
(***************************************************************************)
refIdle == <<chatVars, parseVars, ucVars, mwVars, user_subscriptions,
             usage_tracking, incCalls, modelMode, subscription>>

\* The statement sent last, the id it named, whether it raised an error and
\* the rows of other tables its cascades deleted.
RefLog(op, id, error, cascaded) ==
  [op |-> op, id |-> id, error |-> error, cascaded |-> cascaded]

\* messages without ON DELETE CASCADE and without a foreign key.
KeepRows(convs, rows) == rows

\* conversation_id ... REFERENCES conversations(id) ON DELETE CASCADE: the
\* rows that remain when the conversations convs are deleted.
OnDeleteCascade(convs, rows) == {row \in rows : row.conversation_id \notin convs}

\* createConversation: INSERT INTO conversations.
RefInsertConversation(id) ==
  LET ok == \A c \in conversations : c.id # id
  IN /\ conversations' = IF ok THEN conversations \cup {[id |-> id, user_id |-> "A"]}
                         ELSE conversations
     /\ dbLog' = RefLog("insertConversation", id, ~ok, {})
     /\ UNCHANGED <<dbMessages, message_feedback, refIdle>>

\* addMessage: INSERT INTO messages (conversation_id, role, content, ...);
\* the foreign key and CHECK (role IN ('user', 'assistant')) are verified.
RefInsertMessage(id, conversation_id, role) ==
  LET ok == /\ \A m \in dbMessages : m.id # id
            /\ \E c \in conversations : c.id = conversation_id
            /\ role \in {"user", "assistant"}
  IN /\ dbMessages' =
          IF ok THEN dbMessages \cup
                       {[id |-> id, conversation_id |-> conversation_id, role |-> role]}
          ELSE dbMessages
     /\ dbLog' = RefLog("insertMessage", id, ~ok, {})
     /\ UNCHANGED <<conversations, message_feedback, refIdle>>

\* UPDATE messages SET conversation_id = ..., role = ... WHERE id = ...
RefUpdateMessage(id, conversation_id, role) ==
  LET ok == /\ \E c \in conversations : c.id = conversation_id
            /\ role \in {"user", "assistant"}
      hit == \E m \in dbMessages : m.id = id
  IN /\ dbMessages' =
          IF ok THEN {IF m.id = id
                      THEN [m EXCEPT !.conversation_id = conversation_id, !.role = role]
                      ELSE m : m \in dbMessages}
          ELSE dbMessages
     /\ dbLog' = RefLog("updateMessage", id, hit /\ ~ok, {})
     /\ UNCHANGED <<conversations, message_feedback, refIdle>>

\* INSERT INTO message_feedback (message_id, conversation_id, rating, ...):
\* both foreign keys and UNIQUE(user_id, message_id) are verified.
RefInsertFeedback(message_id, conversation_id) ==
  LET ok == /\ \A f \in message_feedback : f.message_id # message_id
            /\ \E m \in dbMessages : m.id = message_id
            /\ \E c \in conversations : c.id = conversation_id
  IN /\ message_feedback' =
          IF ok THEN message_feedback \cup
                       {[message_id |-> message_id, conversation_id |-> conversation_id]}
          ELSE message_feedback
     /\ dbLog' = RefLog("insertFeedback", message_id, ~ok, {})
     /\ UNCHANGED <<conversations, dbMessages, refIdle>>

\* DELETE FROM messages WHERE id = ...: message_feedback.message_id cascades.
RefDeleteMessage(id) ==
  /\ dbMessages' = {m \in dbMessages : m.id # id}
  /\ message_feedback' = {f \in message_feedback : f.message_id # id}
  /\ dbLog' = RefLog("deleteMessage", id, FALSE,
                     {f \in message_feedback : f.message_id = id})
  /\ UNCHANGED <<conversations, refIdle>>

\* deleteConversation: DELETE FROM conversations WHERE id = conversationId.
\* messages.conversation_id, message_feedback.conversation_id and, for the
\* messages deleted, message_feedback.message_id cascade.
RefDeleteConversation(id) ==
  LET left == OnDeleteCascade({id}, dbMessages)
  IN /\ conversations' = {c \in conversations : c.id # id}
     /\ dbMessages' = left
     /\ message_feedback' =
          {f \in OnDeleteCascade({id}, message_feedback) :
             f.message_id \notin {m.id : m \in dbMessages \ left}}
     /\ dbLog' = RefLog("deleteConversation", id, FALSE,
                        (dbMessages \ left) \cup (message_feedback \ message_feedback'))
     /\ UNCHANGED refIdle

InitRef ==
  /\ ChatIdle /\ ParseIdle /\ UcIdle /\ MwIdle /\ PlanIdle
  /\ conversations = {} /\ dbMessages = {}
  /\ dbLog = RefLog("none", 0, FALSE, {})

\* 'system' is a role outside the CHECK.
NextRef ==
  \/ \E id \in ConvIds : RefInsertConversation(id)
  \/ \E id \in MsgIds, conversation_id \in ConvIds,
        role \in {"user", "assistant", "system"} :
       \/ RefInsertMessage(id, conversation_id, role)
       \/ RefUpdateMessage(id, conversation_id, role)
  \/ \E message_id \in MsgIds, conversation_id \in ConvIds :
       RefInsertFeedback(message_id, conversation_id)
  \/ \E id \in MsgIds : RefDeleteMessage(id)
  \/ \E id \in ConvIds : RefDeleteConversation(id)

SpecRef == InitRef /\ [][NextRef]_vars

NoOrphan(convs, msgs, feedback) ==
  /\ \A m \in msgs : /\ \E c \in convs : c.id = m.conversation_id
                     /\ m.role \in {"user", "assistant"}
  /\ \A f \in feedback : /\ \E m \in msgs : m.id = f.message_id
                         /\ \E c \in convs : c.id = f.conversation_id

\* C13: after every statement each message references an existing
\* conversation and has role 'user' or 'assistant', and each feedback row
\* references an existing message and conversation; deleteConversation
\* removes the conversation, all of its messages and their feedback rows.
C13_ReferentialIntegrity ==
  [][/\ NoOrphan(conversations', dbMessages', message_feedback')
     /\ dbLog'.op = "deleteConversation" =>
          LET gone == {m \in dbMessages : m.conversation_id = dbLog'.id}
          IN /\ \A c \in conversations' : c.id # dbLog'.id
             /\ dbMessages' \cap gone = {}
             /\ \A f \in message_feedback' :
                  f.message_id \notin {m.id : m \in gone}]_vars

\* Conversation 1 was deleted with its message, whose feedback row was
\* recorded under conversation 2; conversation 2 remains with its own rows.
C13_Witness ==
  /\ dbLog.op = "deleteConversation" /\ dbLog.id = 1
  /\ dbLog.cascaded = {[id |-> 1, conversation_id |-> 1, role |-> "user"],
                       [message_id |-> 1, conversation_id |-> 2]}
  /\ conversations = {[id |-> 2, user_id |-> "A"]}
  /\ dbMessages = {[id |-> 2, conversation_id |-> 2, role |-> "assistant"]}
  /\ message_feedback = {[message_id |-> 2, conversation_id |-> 2]}


(***************************************************************************)
(* Properties of the end of a request                                      *)
(***************************************************************************)
NoStreaming == \A i \in 1..Len(messages) : ~messages[i].isStreaming

\* C14: once the askQuestionStreaming call of a request has returned and the
\* save of its answer has settled, nothing of the request is left to run; the
\* interface is then in a terminal state: loading is false and no message is
\* streaming.
C14_RequestReachesTerminalState ==
  \A r \in Requests :
    (req[r].pc = "returned" /\ r \notin saving) => (~loading /\ NoStreaming)

\* A callback of the call r runs in this step: one of its stream callbacks,
\* or the id update when the save of its answer resolves.
CallbackOf(r) == Gets(r) \/ (r \in saving /\ r \notin saving')

\* C15: a callback of a request leaves every user message as it is; once a
\* later request has appended its placeholder it changes no message at all;
\* and while a later request is outstanding it changes neither loading nor
\* abortRef.
C15_CallbacksTouchOwnPlaceholder ==
  [][\A r \in Requests : CallbackOf(r) =>
       /\ \A i \in 1..Len(messages) : messages[i].role = "user" =>
            (i <= Len(messages') /\ messages'[i] = messages[i])
       /\ \A later \in Requests : later > r =>
            /\ req[later].pc \in {"headers", "fetching", "reading", "returned"}
                 => messages' = messages
            /\ (Outstanding(later) /\ req[later].stopAt = -1)
                 => (loading' = loading /\ abortRef' = abortRef)]_vars

\* The partial answer the call of rec had delivered when it was stopped.
PartialAtStop(rec) == OwnTokens(SubSeq(rec.calls, 1, rec.stopAt))

\* C16: a request that was stopped after a non-empty partial answer c, and
\* whose call has returned, leaves the last message as the assistant message
\* with content exactly c, not streaming and not flagged isError.
C16_StopKeepsPartialAnswer ==
  \A r \in Requests :
    (/\ req[r].stopAt >= 0
     /\ PartialAtStop(req[r]) # <<>>
     /\ req[r].pc = "returned") =>
       /\ Len(messages) > 0
       /\ Last(messages).role = "assistant"
       /\ Last(messages).content = PartialAtStop(req[r])
       /\ ~Last(messages).isStreaming
       /\ ~Last(messages).isError

\* C17: a call that has invoked onDone or onError invokes no callback
\* afterwards; so onDone and onError together are invoked at most once.
C17_OneTerminalCallback ==
  [][\A r \in Requests : Gets(r) => ~Terminated(r)]_vars

\* C18: at most one message is streaming; a streaming message is the last
\* message, an assistant message, and loading is true.
C18_OneStreamingMessage ==
  \A i \in 1..Len(messages) : messages[i].isStreaming =>
    /\ i = Len(messages)
    /\ messages[i].role = "assistant"
    /\ loading


(***************************************************************************)
(* Model mode: ChatInterface's modelMode, ModelSelector, isModelModeAllowed *)
(***************************************************************************)
\* DEFAULT_FEATURES.model_modes (subscription-context 108-111).
DEFAULT_FEATURES == [model_modes |-> {"1.1"}]

\* features.model_modes of the seeded plans, by tier.
PlanFeatures ==
  [tier \in {"free", "basic", "pro", "enterprise"} |->
     [model_modes |-> IF tier = "free" THEN {"1.1"} ELSE {"1.1", "2.1"}]]

\* isModelModeAllowed: subscription?.features || usage?.features ||
\* DEFAULT_FEATURES.  The variable subscription holds the tier of the
\* subscription data, "null" before they arrive; the usage data of this
\* specification are never loaded, so usage?.features is undefined.
IsModelModeAllowed(mode) ==
  LET features == IF subscription # "null" THEN PlanFeatures[subscription]
                  ELSE DEFAULT_FEATURES
  IN mode \in features.model_modes

\* A button of ModelSelector: disabled while loading or when the mode is not
\* allowed; onChange(m.id) otherwise.
SelectModel(m) ==
  /\ ~Urgent
  /\ ~loading
  /\ IsModelModeAllowed(m)
  /\ modelMode # m
  /\ modelMode' = m
  /\ UNCHANGED <<chatVars, parseVars, ucVars, dbVars, mwVars>>
  /\ UNCHANGED <<user_subscriptions, usage_tracking, incCalls, message_feedback,
                 subscription>>

\* refreshSubscription: setSubscription(data) with the data of a plan.
RefreshSubscription(tier) ==
  /\ ~Urgent
  /\ subscription # tier
  /\ subscription' = tier
  /\ UNCHANGED <<chatVars, parseVars, ucVars, dbVars, mwVars>>
  /\ UNCHANGED <<user_subscriptions, usage_tracking, incCalls, message_feedback,
                 modelMode>>

\* The first request of a session over a reliable network, with the
\* subscription data arriving and the user choosing among MODELS.
NextMode ==
  \/ \E m \in {"2.1", "1.1"} : SelectModel(m)
  \/ \E tier \in {"free", "basic"} : RefreshSubscription(tier)
  \/ \E text \in Inputs : SetInput(text)
  \/ FirstSubmit
  \/ \E q \in QUICK_QUESTIONS : FirstQuickQuestion(q)
  \/ \E r \in Requests, ok \in BOOLEAN : CreateConversationSettled(r, ok)
  \/ StopGenerating
  \/ \E r \in Requests : HeadersResolve(r)
  \/ \E r \in Requests : FetchResponse(r, StreamResponse)
  \/ \E r \in Requests : AbortReject(r)
  \/ \E r \in Requests, ev \in Events : ReadChunk(r, ev)
  \/ \E r \in Requests : ReadDone(r)
  \/ \E r \in Requests : SaveResolved(r)
  \/ \E r \in Requests : SaveFailed(r)

SpecMode == Init /\ [][NextMode]_vars

\* C19: when sendMessage calls askQuestionStreaming, the modelMode it passes
\* is one that isModelModeAllowed accepts at that time.
C19_SentModelModeAllowed ==
  [][\A r \in Requests :
       (req[r].pc \in {"unused", "creating"} /\ req'[r].pc = "headers") =>
         IsModelModeAllowed(req'[r].modelMode)]_vars


(***************************************************************************)
(* The stored conversation                                                 *)
(***************************************************************************)
\* getMessages(conversationId): the rows of the conversation in the order of
\* created_at, as (role, content).  The rows are those addMessage inserted:
\* the user message of each call of sendMessage that had a conversation id
\* and was not told to skip it (ChatInterface 173-179), and the answer that
\* onDone saved (240-254) once that save has resolved; no code deletes or
\* updates a messages row.  n is the number of requests taken into account.
RECURSIVE GetMessages(_, _)
GetMessages(conversationId, n) ==
  IF n = 0 THEN <<>>
  ELSE LET rec == req[n]
           here == rec.convId = conversationId
                     /\ rec.pc \notin {"unused", "creating"}
           user == IF here /\ ~rec.skip
                   THEN <<[role |-> "user", content |-> rec.q]>> ELSE <<>>
           answer == IF here /\ n \notin saving
                          /\ \E i \in 1..Len(rec.calls) : rec.calls[i].kind = "done"
                     THEN <<[role |-> "assistant", content |-> rec.answer]>>
                     ELSE <<>>
       IN GetMessages(conversationId, n - 1) \o user \o answer

\* A session in which every persistence call succeeds: createConversation
\* resolves and the save of an answer resolves.
NextStore ==
  \/ \E text \in Inputs : SetInput(text)
  \/ Submit
  \/ \E q \in QUICK_QUESTIONS : QuickQuestion(q)
  \/ \E r \in Requests : CreateConversationSettled(r, TRUE)
  \/ StopGenerating
  \/ RetryLastMessage
  \/ RegenerateResponse
  \/ PendingRetryEffect
  \/ \E r \in Requests : HeadersResolve(r)
  \/ \E r \in Requests : FetchResponse(r, StreamResponse)
  \/ \E r \in Requests : AbortReject(r)
  \/ \E r \in Requests, ev \in Events : ReadChunk(r, ev)
  \/ \E r \in Requests : ReadDone(r)
  \/ \E r \in Requests : SaveResolved(r)

SpecStore == Init /\ [][NextStore]_vars

\* The messages displayed, as (role, content), error bubbles left out.
RECURSIVE Displayed(_)
Displayed(msgs) ==
  IF msgs = <<>> THEN <<>>
  ELSE LET m == msgs[Len(msgs)]
           rest == Displayed(SubSeq(msgs, 1, Len(msgs) - 1))
       IN IF m.isError THEN rest
          ELSE Append(rest, [role |-> m.role, content |-> m.content])

\* Every operation begun has completed without stop or abort: each call has
\* returned after done, or after an error event that followed no token, and
\* nothing is pending.
Completed ==
  /\ currentConvId # 0
  /\ ~loading /\ ~pendingRetryRef.set /\ saving = {}
  /\ \A r \in 1..nreq :
       /\ req[r].pc = "returned"
       /\ req[r].stopAt = -1 /\ ~req[r].aborted
       /\ Len(req[r].calls) > 0
       /\ \/ Last(req[r].calls).kind = "done"
          \/ (Last(req[r].calls).kind = "error" /\ OwnTokens(req[r].calls) = <<>>)

\* C20: after completed operations the messages getMessages returns for the
\* conversation are the (role, content) sequence displayed.
C20_DisplayedEqualsStored ==
  Completed => GetMessages(currentConvId, nreq) = Displayed(messages)


(***************************************************************************)
(* Retry in a conversation that holds an earlier failure                   *)
(***************************************************************************)
\* /chat/[id] after a first question was answered by an error event and its
\* call returned: the user message and the error bubble of onError are
\* displayed.  The call that returned takes no further part and is not among
\* the calls counted.
InitRetry ==
  /\ messages = <<UserMsg(<<"q0">>),
                  Message("assistant", <<"server error">>, FALSE, TRUE, NoMeta, 0)>>
  /\ input = <<>>
  /\ loading = FALSE
  /\ isThinking = FALSE
  /\ currentConvId = 1
  /\ streamingContentRef = <<>>
  /\ streamingMetaRef = NoMeta
  /\ abortRef = 0
  /\ pendingRetryRef = NoRetry
  /\ usage = NoUsage
  /\ online = TRUE
  /\ req = [r \in Requests |-> NoReq]
  /\ nreq = 0
  /\ saving = {}
  /\ ParseIdle /\ UcIdle /\ DbIdle /\ MwIdle /\ PlanIdle

\* The session that follows, over a network that does not fail.  No quick
\* question is offered (messages is not empty) and no conversation is
\* created (the conversation has an id).
NextRetry ==
  \/ \E text \in Inputs : SetInput(text)
  \/ Submit
  \/ StopGenerating
  \/ RetryLastMessage
  \/ RegenerateResponse
  \/ PendingRetryEffect
  \/ \E r \in Requests : HeadersResolve(r)
  \/ \E r \in Requests : FetchResponse(r, StreamResponse)
  \/ \E r \in Requests : AbortReject(r)
  \/ \E r \in Requests, ev \in Events : ReadChunk(r, ev)
  \/ \E r \in Requests : ReadDone(r)
  \/ \E r \in Requests : SaveResolved(r)
  \/ \E r \in Requests : SaveFailed(r)

SpecRetry == InitRetry /\ [][NextRetry]_vars

\* retryLastMessage / regenerateResponse takes effect in this step.
RetriesNow ==
  ~pendingRetryRef.set /\ pendingRetryRef'.set /\ ~pendingRetryRef'.skipUserMessage
RegeneratesNow ==
  ~pendingRetryRef.set /\ pendingRetryRef'.set /\ pendingRetryRef'.skipUserMessage

\* The request the retry sent has completed and nothing has followed it.
RetryCompleted(r) ==
  /\ r = nreq /\ req[r].retry /\ ~req[r].skip
  /\ req[r].pc = "returned" /\ Terminated(r)
  /\ ~loading /\ ~pendingRetryRef.set

\* The question of the call r is the last user message, it does not follow
\* another user message, and one assistant message follows it.
AskedOnceAnswered(r) ==
  LET n == Len(messages) IN
  /\ n >= 2
  /\ messages[n].role = "assistant"
  /\ messages[n - 1] = UserMsg(req[r].q)
  /\ n >= 3 => messages[n - 2].role = "assistant"

\* C21: retryLastMessage removes the trailing failed assistant message and
\* the trailing user message and asks for one sendMessage with the text of
\* that user message; the effect sends exactly that; when the request has
\* completed the question is the last user message, once, followed by one
\* assistant message; while loading is true neither retryLastMessage nor
\* regenerateResponse removes a message or asks for a sendMessage.
C21_RetryLastMessage ==
  [][/\ RetriesNow =>
          LET n == Len(messages) IN
          /\ n >= 2
          /\ messages[n].role = "assistant" /\ messages[n].isError
          /\ messages[n - 1].role = "user"
          /\ messages' = SubSeq(messages, 1, n - 2)
          /\ pendingRetryRef'.question = messages[n - 1].content
     /\ (pendingRetryRef.set /\ ~pendingRetryRef'.set) =>
          /\ nreq' = nreq + 1
          /\ req'[nreq'].q = pendingRetryRef.question
          /\ req'[nreq'].skip = pendingRetryRef.skipUserMessage
     /\ \A r \in Requests : RetryCompleted(r)' => AskedOnceAnswered(r)'
     /\ loading => ~RetriesNow /\ ~RegeneratesNow]_vars

====
